---- MODULE Spec2Model ----
(***************************************************************************)
(* Model of the two sitemap scripts of the repository:                     *)
(*   generate_sitemaps.py  (ToolsSitemapGenerator, the catalogue path)     *)
(*   sitemap_splitter.py   (SitemapSplitter, the existing-sitemap path)    *)
(* Strings are sequences of one-character strings, so that lower(),        *)
(* replace(), rstrip(), startswith() and re.search() are computed the way  *)
(* Python computes them.                                                   *)
(***************************************************************************)
EXTENDS Integers, Sequences, FiniteSets, TLC

VARIABLES
  prog,         \* which script runs: "generate" or "split"
  pc,           \* position of the run inside generate_sitemaps / split_sitemap
  source,       \* catalogue file tools.ts: [state, entries]
  input,        \* existing sitemap file: [state, doc]
  tools,        \* generate_sitemaps: local `tools`
  all_urls,     \* split_sitemap: local `all_urls`
  categorized,  \* categorized_tools / categorized_urls: ordered dict as a sequence
  todo,         \* index of the next dict item of the "Create category sitemaps" loop
  dir_created,  \* os.makedirs(output_dir) has run
  files,        \* output directory: file name -> document
  writes,       \* every file write of the run, in order
  report,       \* the printed categorization summary: per-category counts
  n_id, n_href, n_out, n_stage,   \* href normalization applied repeatedly
  c_url, c_result, c_stage,       \* categorize_url applied to one URL
  r_urls, r_file, r_back, r_stage \* a list of tuples written and read back

runVars  == <<prog, pc, source, input, tools, all_urls, categorized, todo,
              dir_created, files, writes, report>>
normVars == <<n_id, n_href, n_out, n_stage>>
catVars  == <<c_url, c_result, c_stage>>
roundVars == <<r_urls, r_file, r_back, r_stage>>
vars     == <<prog, pc, source, input, tools, all_urls, categorized, todo,
              dir_created, files, writes, report,
              n_id, n_href, n_out, n_stage, c_url, c_result, c_stage,
              r_urls, r_file, r_back, r_stage>>

----------------------------------------------------------------------------
(* Bounds of the model.                                                    *)
MaxTools  == 3    \* catalogue entries in tools.ts
MaxUrls   == 2    \* <url> elements of the existing sitemap
MaxTail   == 3    \* characters after the prefix of a generated href
MaxTokens == 3    \* tokens of a generated URL
MaxRecs   == 2    \* tuples of a list written and read back

----------------------------------------------------------------------------
(* Python string primitives.                                               *)

UpperChars == <<"A","B","C","D","E","F","G","H","I","J","K","L","M","N","O","P","Q","R","S","T","U","V","W","X","Y","Z">>
LowerChars == <<"a","b","c","d","e","f","g","h","i","j","k","l","m","n","o","p","q","r","s","t","u","v","w","x","y","z">>

\* the lowercase of every uppercase letter
LowerOf ==
  [c \in {UpperChars[i] : i \in 1..Len(UpperChars)} |->
     LowerChars[CHOOSE i \in 1..Len(UpperChars) : UpperChars[i] = c]]

\* str.lower() on one character
lower_char(c) == IF c \in DOMAIN LowerOf THEN LowerOf[c] ELSE c

\* str.lower()
lower(s) == [i \in 1..Len(s) |-> lower_char(s[i])]

\* str.startswith(prefix)
startswith(s, prefix) ==
  /\ Len(s) >= Len(prefix)
  /\ SubSeq(s, 1, Len(prefix)) = prefix

\* str.replace(old, new): left to right, non-overlapping occurrences
RECURSIVE replace(_, _, _)
replace(s, old, new) ==
  IF Len(s) < Len(old) THEN s
  ELSE IF SubSeq(s, 1, Len(old)) = old
       THEN new \o replace(SubSeq(s, Len(old) + 1, Len(s)), old, new)
       ELSE <<Head(s)>> \o replace(Tail(s), old, new)

\* str.rstrip(chars) for a single character: every trailing occurrence goes
RECURSIVE rstrip(_, _)
rstrip(s, c) ==
  IF Len(s) > 0 /\ s[Len(s)] = c THEN rstrip(SubSeq(s, 1, Len(s) - 1), c) ELSE s

\* str < str: lexicographic by code point (the characters used are ASCII)
CodeOrder == <<"\n","\"","'","-",".","/","0","1","2","3","4","5","6","7","8","9",":","<",">","A","B","C","D","E","F","G","H","I","J","K","L","M","N","O","P","Q","R","S","T","U","V","W","X","Y","Z","_","a","b","c","d","e","f","g","h","i","j","k","l","m","n","o","p","q","r","s","t","u","v","w","x","y","z">>
ord(c) == CHOOSE i \in 1..Len(CodeOrder) : CodeOrder[i] = c

RECURSIVE str_lt(_, _)
str_lt(a, b) ==
  IF Len(b) = 0 THEN FALSE
  ELSE IF Len(a) = 0 THEN TRUE
  ELSE IF a[1] = b[1] THEN str_lt(Tail(a), Tail(b))
  ELSE ord(a[1]) < ord(b[1])

str_le(a, b) == a = b \/ str_lt(a, b)

\* list.sort / sorted(): stable insertion of x after the items of s (sorted) whose key is <= x.key
RECURSIVE insert_sorted(_, _)
insert_sorted(s, x) ==
  IF Len(s) = 0 THEN <<x>>
  ELSE IF str_lt(x.key, s[1].key) THEN <<x>> \o s
  ELSE <<s[1]>> \o insert_sorted(Tail(s), x)

\* s is a sequence of [key, val]; the result is s sorted by key, ties in input order
RECURSIVE sort_keyed(_)
sort_keyed(s) ==
  IF Len(s) = 0 THEN <<>>
  ELSE insert_sorted(sort_keyed(SubSeq(s, 1, Len(s) - 1)), s[Len(s)])

\* sorted(list of str)
sorted(s) ==
  LET r == sort_keyed([i \in 1..Len(s) |-> [key |-> s[i], val |-> s[i]]])
  IN  [i \in 1..Len(r) |-> r[i].val]

----------------------------------------------------------------------------
(* ToolsSitemapGenerator: href normalization of parse_tools_from_ts.       *)

ToolsPrefix == <<"/","t","o","o","l","s","/">>
Slash == "/"

\* lines 48-53: the href stored for a catalogue entry
normalize_href(tool_id, href) ==
  LET h0 == IF ~startswith(href, ToolsPrefix) THEN ToolsPrefix \o tool_id ELSE href
  IN  rstrip(replace(lower(h0), <<Slash, Slash>>, <<Slash>>), Slash)


----------------------------------------------------------------------------
(* Python values that are not str.                                         *)

\* None; no str equals it, since "None" is not one character
None == <<"None">>
\* Element.find() found no such child
Absent == <<"Absent">>
\* AttributeError: 'NoneType' object has no attribute 'replace'
AttributeError == <<"AttributeError">>

----------------------------------------------------------------------------
(* re.search for the patterns of the category table: literal parts joined  *)
(* by '.*', optionally ending in '$'.                                      *)

Pat(parts, anchored) == [parts |-> parts, anchored |-> anchored]

Newline == "\n"

\* '$' matches at the end of the string and just before a newline that ends it
at_end(t, next) ==
  \/ next = Len(t) + 1
  \/ next = Len(t) /\ t[next] = Newline

\* '.*' spans t[from..to]: any characters but newlines
dot_star(t, from, to) == \A k \in from..to : t[k] # Newline

\* parts[k..] match t with parts[k] starting at position i
RECURSIVE match_at(_, _, _, _, _)
match_at(parts, k, t, i, anchored) ==
  LET n    == Len(parts[k])
      next == i + n
  IN  /\ next <= Len(t) + 1
      /\ SubSeq(t, i, next - 1) = parts[k]
      /\ IF k = Len(parts)
         THEN anchored => at_end(t, next)
         ELSE \E j \in next..Len(t) :
                /\ dot_star(t, next, j - 1)
                /\ match_at(parts, k + 1, t, j, anchored)

\* re.search(pattern, s, re.IGNORECASE) is not None
re_search(p, s) ==
  LET t == lower(s)
  IN  \E i \in 1..Len(t) : t[i] = p.parts[1][1] /\ match_at(p.parts, 1, t, i, p.anchored)

----------------------------------------------------------------------------
(* SitemapSplitter.__init__: base_url and the category table, in the       *)
(* order the dict literal declares its keys.                               *)

BaseUrl == <<"h","t","t","p","s",":","/","/","d","a","p","s","i","w","o","w",".","c","o","m">>
CurrentDate == <<"2","0","2","5","-","0","1","-","0","1">>

Main    == <<"m","a","i","n">>
Finance == <<"f","i","n","a","n","c","e">>
Health  == <<"h","e","a","l","t","h">>
Pdf     == <<"p","d","f">>
Text    == <<"t","e","x","t">>

MainPatterns == <<
      Pat(<<<<"/">>>>, TRUE),
      Pat(<<<<"/","a","b","o","u","t">>>>, FALSE),
      Pat(<<<<"/","c","o","n","t","a","c","t">>>>, FALSE),
      Pat(<<<<"/","p","r","i","v","a","c","y">>>>, FALSE),
      Pat(<<<<"/","t","e","r","m","s">>>>, FALSE),
      Pat(<<<<"/","h","e","l","p">>>>, FALSE),
      Pat(<<<<"/","t","o","o","l","s">>>>, TRUE),
      Pat(<<<<"/","f","i","n","a","n","c","e">>>>, TRUE),
      Pat(<<<<"/","h","e","a","l","t","h">>>>, TRUE),
      Pat(<<<<"/","t","e","x","t">>>>, TRUE),
      Pat(<<<<"/","p","d","f">>>>, TRUE) >>

FinancePatterns == <<
      Pat(<<<<"l","o","a","n">>, <<"c","a","l","c","u","l","a","t","o","r">>>>, FALSE),
      Pat(<<<<"m","o","r","t","g","a","g","e">>, <<"c","a","l","c","u","l","a","t","o","r">>>>, FALSE),
      Pat(<<<<"e","m","i">>, <<"c","a","l","c","u","l","a","t","o","r">>>>, FALSE),
      Pat(<<<<"c","o","m","p","o","u","n","d">>, <<"i","n","t","e","r","e","s","t">>>>, FALSE),
      Pat(<<<<"s","i","m","p","l","e">>, <<"i","n","t","e","r","e","s","t">>>>, FALSE),
      Pat(<<<<"r","o","i">>, <<"c","a","l","c","u","l","a","t","o","r">>>>, FALSE),
      Pat(<<<<"t","a","x">>, <<"c","a","l","c","u","l","a","t","o","r">>>>, FALSE),
      Pat(<<<<"s","a","l","a","r","y">>, <<"c","a","l","c","u","l","a","t","o","r">>>>, FALSE),
      Pat(<<<<"t","i","p">>, <<"c","a","l","c","u","l","a","t","o","r">>>>, FALSE),
      Pat(<<<<"i","n","f","l","a","t","i","o","n">>, <<"c","a","l","c","u","l","a","t","o","r">>>>, FALSE),
      Pat(<<<<"s","a","v","i","n","g","s">>, <<"c","a","l","c","u","l","a","t","o","r">>>>, FALSE),
      Pat(<<<<"d","e","b","t">>, <<"c","a","l","c","u","l","a","t","o","r">>>>, FALSE),
      Pat(<<<<"i","n","v","e","s","t","m","e","n","t">>, <<"c","a","l","c","u","l","a","t","o","r">>>>, FALSE),
      Pat(<<<<"r","e","t","i","r","e","m","e","n","t">>, <<"c","a","l","c","u","l","a","t","o","r">>>>, FALSE),
      Pat(<<<<"s","i","p">>, <<"c","a","l","c","u","l","a","t","o","r">>>>, FALSE),
      Pat(<<<<"b","r","e","a","k">>, <<"e","v","e","n">>>>, FALSE),
      Pat(<<<<"b","u","s","i","n","e","s","s">>, <<"l","o","a","n">>>>, FALSE),
      Pat(<<<<"c","a","r">>, <<"l","o","a","n">>>>, FALSE),
      Pat(<<<<"h","o","m","e">>, <<"l","o","a","n">>>>, FALSE),
      Pat(<<<<"e","d","u","c","a","t","i","o","n">>, <<"l","o","a","n">>>>, FALSE),
      Pat(<<<<"c","r","e","d","i","t">>, <<"c","a","r","d">>>>, FALSE),
      Pat(<<<<"p","e","r","c","e","n","t","a","g","e">>, <<"c","a","l","c","u","l","a","t","o","r">>>>, FALSE),
      Pat(<<<<"d","i","s","c","o","u","n","t">>, <<"c","a","l","c","u","l","a","t","o","r">>>>, FALSE),
      Pat(<<<<"v","a","t">>, <<"c","a","l","c","u","l","a","t","o","r">>>>, FALSE),
      Pat(<<<<"g","s","t">>, <<"c","a","l","c","u","l","a","t","o","r">>>>, FALSE),
      Pat(<<<<"p","a","y","p","a","l">>, <<"f","e","e">>>>, FALSE),
      Pat(<<<<"l","e","a","s","e">>, <<"c","a","l","c","u","l","a","t","o","r">>>>, FALSE),
      Pat(<<<<"s","t","o","c","k">>, <<"p","r","o","f","i","t">>>>, FALSE),
      Pat(<<<<"n","e","t">>, <<"w","o","r","t","h">>>>, FALSE) >>

HealthPatterns == <<
      Pat(<<<<"b","m","i">>, <<"c","a","l","c","u","l","a","t","o","r">>>>, FALSE),
      Pat(<<<<"b","m","r">>, <<"c","a","l","c","u","l","a","t","o","r">>>>, FALSE),
      Pat(<<<<"c","a","l","o","r","i","e">>, <<"c","a","l","c","u","l","a","t","o","r">>>>, FALSE),
      Pat(<<<<"b","o","d","y">>, <<"f","a","t">>>>, FALSE),
      Pat(<<<<"i","d","e","a","l">>, <<"w","e","i","g","h","t">>>>, FALSE),
      Pat(<<<<"p","r","e","g","n","a","n","c","y">>, <<"c","a","l","c","u","l","a","t","o","r">>>>, FALSE),
      Pat(<<<<"w","a","t","e","r">>, <<"i","n","t","a","k","e">>>>, FALSE),
      Pat(<<<<"p","r","o","t","e","i","n">>, <<"c","a","l","c","u","l","a","t","o","r">>>>, FALSE),
      Pat(<<<<"c","a","r","b">>, <<"c","a","l","c","u","l","a","t","o","r">>>>, FALSE),
      Pat(<<<<"k","e","t","o">>, <<"c","a","l","c","u","l","a","t","o","r">>>>, FALSE),
      Pat(<<<<"f","a","s","t","i","n","g">>, <<"t","i","m","e","r">>>>, FALSE),
      Pat(<<<<"s","t","e","p">>, <<"c","a","l","o","r","i","e">>>>, FALSE),
      Pat(<<<<"h","e","a","r","t">>, <<"r","a","t","e">>>>, FALSE),
      Pat(<<<<"b","l","o","o","d">>, <<"p","r","e","s","s","u","r","e">>>>, FALSE),
      Pat(<<<<"s","l","e","e","p">>, <<"c","a","l","c","u","l","a","t","o","r">>>>, FALSE),
      Pat(<<<<"o","v","u","l","a","t","i","o","n">>, <<"c","a","l","c","u","l","a","t","o","r">>>>, FALSE),
      Pat(<<<<"b","a","b","y">>, <<"g","r","o","w","t","h">>>>, FALSE),
      Pat(<<<<"t","d","e","e">>, <<"c","a","l","c","u","l","a","t","o","r">>>>, FALSE),
      Pat(<<<<"l","e","a","n">>, <<"b","o","d","y">>>>, FALSE),
      Pat(<<<<"w","a","i","s","t">>, <<"r","a","t","i","o">>>>, FALSE),
      Pat(<<<<"w","h","r">>, <<"c","a","l","c","u","l","a","t","o","r">>>>, FALSE),
      Pat(<<<<"l","i","f","e">>, <<"e","x","p","e","c","t","a","n","c","y">>>>, FALSE),
      Pat(<<<<"c","h","o","l","e","s","t","e","r","o","l">>, <<"c","a","l","c","u","l","a","t","o","r">>>>, FALSE),
      Pat(<<<<"r","u","n","n","i","n","g">>, <<"p","a","c","e">>>>, FALSE),
      Pat(<<<<"c","y","c","l","i","n","g">>, <<"s","p","e","e","d">>>>, FALSE),
      Pat(<<<<"s","w","i","m","m","i","n","g">>, <<"c","a","l","o","r","i","e">>>>, FALSE),
      Pat(<<<<"a","l","c","o","h","o","l">>, <<"c","a","l","o","r","i","e">>>>, FALSE),
      Pat(<<<<"s","m","o","k","i","n","g">>, <<"c","o","s","t">>>>, FALSE) >>

PdfPatterns == <<
      Pat(<<<<"m","e","r","g","e">>, <<"p","d","f">>>>, FALSE),
      Pat(<<<<"s","p","l","i","t">>, <<"p","d","f">>>>, FALSE),
      Pat(<<<<"c","o","m","p","r","e","s","s">>, <<"p","d","f">>>>, FALSE),
      Pat(<<<<"p","d","f">>, <<"c","o","m","p","r","e","s","s">>>>, FALSE),
      Pat(<<<<"p","d","f">>, <<"m","e","r","g","e">>>>, FALSE),
      Pat(<<<<"p","d","f">>, <<"s","p","l","i","t">>>>, FALSE),
      Pat(<<<<"p","d","f">>, <<"c","o","n","v","e","r","t">>>>, FALSE),
      Pat(<<<<"c","o","n","v","e","r","t">>, <<"p","d","f">>>>, FALSE),
      Pat(<<<<"p","d","f">>, <<"t","o">>, <<"i","m","a","g","e">>>>, FALSE),
      Pat(<<<<"i","m","a","g","e">>, <<"t","o">>, <<"p","d","f">>>>, FALSE),
      Pat(<<<<"p","d","f">>, <<"t","o">>, <<"w","o","r","d">>>>, FALSE),
      Pat(<<<<"w","o","r","d">>, <<"t","o">>, <<"p","d","f">>>>, FALSE),
      Pat(<<<<"p","d","f">>, <<"t","o">>, <<"e","x","c","e","l">>>>, FALSE),
      Pat(<<<<"e","x","c","e","l">>, <<"t","o">>, <<"p","d","f">>>>, FALSE),
      Pat(<<<<"p","d","f">>, <<"e","n","c","r","y","p","t">>>>, FALSE),
      Pat(<<<<"e","n","c","r","y","p","t">>, <<"p","d","f">>>>, FALSE),
      Pat(<<<<"p","d","f">>, <<"d","e","c","r","y","p","t">>>>, FALSE),
      Pat(<<<<"d","e","c","r","y","p","t">>, <<"p","d","f">>>>, FALSE),
      Pat(<<<<"p","d","f">>, <<"r","o","t","a","t","e">>>>, FALSE),
      Pat(<<<<"r","o","t","a","t","e">>, <<"p","d","f">>>>, FALSE),
      Pat(<<<<"p","d","f">>, <<"w","a","t","e","r","m","a","r","k">>>>, FALSE),
      Pat(<<<<"w","a","t","e","r","m","a","r","k">>, <<"p","d","f">>>>, FALSE),
      Pat(<<<<"p","d","f">>, <<"s","i","g","n">>>>, FALSE),
      Pat(<<<<"s","i","g","n">>, <<"p","d","f">>>>, FALSE),
      Pat(<<<<"p","d","f">>, <<"e","d","i","t">>>>, FALSE),
      Pat(<<<<"e","d","i","t">>, <<"p","d","f">>>>, FALSE) >>

TextPatterns == <<
      Pat(<<<<"w","o","r","d">>, <<"c","o","u","n","t","e","r">>>>, FALSE),
      Pat(<<<<"c","h","a","r","a","c","t","e","r">>, <<"c","o","u","n","t","e","r">>>>, FALSE),
      Pat(<<<<"s","e","n","t","e","n","c","e">>, <<"c","o","u","n","t","e","r">>>>, FALSE),
      Pat(<<<<"p","a","r","a","g","r","a","p","h">>, <<"c","o","u","n","t","e","r">>>>, FALSE),
      Pat(<<<<"c","a","s","e">>, <<"c","o","n","v","e","r","t","e","r">>>>, FALSE),
      Pat(<<<<"p","a","s","s","w","o","r","d">>, <<"g","e","n","e","r","a","t","o","r">>>>, FALSE),
      Pat(<<<<"n","a","m","e">>, <<"g","e","n","e","r","a","t","o","r">>>>, FALSE),
      Pat(<<<<"u","s","e","r","n","a","m","e">>, <<"g","e","n","e","r","a","t","o","r">>>>, FALSE),
      Pat(<<<<"a","d","d","r","e","s","s">>, <<"g","e","n","e","r","a","t","o","r">>>>, FALSE),
      Pat(<<<<"q","r">>, <<"g","e","n","e","r","a","t","o","r">>>>, FALSE),
      Pat(<<<<"f","o","n","t">>, <<"c","h","a","n","g","e","r">>>>, FALSE),
      Pat(<<<<"r","e","v","e","r","s","e">>, <<"t","e","x","t">>>>, FALSE),
      Pat(<<<<"t","e","x","t">>, <<"t","o">>, <<"q","r">>>>, FALSE),
      Pat(<<<<"q","r">>, <<"t","o">>, <<"t","e","x","t">>>>, FALSE),
      Pat(<<<<"t","e","x","t">>, <<"t","o">>, <<"b","i","n","a","r","y">>>>, FALSE),
      Pat(<<<<"b","i","n","a","r","y">>, <<"t","o">>, <<"t","e","x","t">>>>, FALSE),
      Pat(<<<<"q","r">>, <<"s","c","a","n","n","e","r">>>>, FALSE),
      Pat(<<<<"m","a","r","k","d","o","w","n">>, <<"t","o">>, <<"h","t","m","l">>>>, FALSE),
      Pat(<<<<"h","t","m","l">>, <<"t","o">>, <<"m","a","r","k","d","o","w","n">>>>, FALSE),
      Pat(<<<<"l","o","r","e","m">>, <<"i","p","s","u","m">>>>, FALSE),
      Pat(<<<<"t","e","x","t">>, <<"e","n","c","r","y","p","t">>>>, FALSE),
      Pat(<<<<"t","e","x","t">>, <<"d","e","c","r","y","p","t">>>>, FALSE),
      Pat(<<<<"u","r","l">>, <<"e","n","c","o","d","e","r">>>>, FALSE),
      Pat(<<<<"u","r","l">>, <<"d","e","c","o","d","e","r">>>>, FALSE),
      Pat(<<<<"b","a","s","e","6","4">>, <<"e","n","c","o","d","e">>>>, FALSE),
      Pat(<<<<"b","a","s","e","6","4">>, <<"d","e","c","o","d","e">>>>, FALSE) >>

SitemapFile(category) == <<"s","i","t","e","m","a","p","-">> \o category \o <<".","x","m","l">>

Categories == <<
  [name |-> Main,    file |-> <<"s","i","t","e","m","a","p","-","m","a","i","n",".","x","m","l">>,    patterns |-> MainPatterns],
  [name |-> Finance, file |-> <<"s","i","t","e","m","a","p","-","f","i","n","a","n","c","e",".","x","m","l">>, patterns |-> FinancePatterns],
  [name |-> Health,  file |-> <<"s","i","t","e","m","a","p","-","h","e","a","l","t","h",".","x","m","l">>,  patterns |-> HealthPatterns],
  [name |-> Pdf,     file |-> <<"s","i","t","e","m","a","p","-","p","d","f",".","x","m","l">>,     patterns |-> PdfPatterns],
  [name |-> Text,    file |-> <<"s","i","t","e","m","a","p","-","t","e","x","t",".","x","m","l">>,    patterns |-> TextPatterns] >>

CategoryNames == {Categories[i].name : i \in 1..Len(Categories)}

\* self.categories[name]
category_data(name) ==
  Categories[CHOOSE i \in 1..Len(Categories) : Categories[i].name = name]

----------------------------------------------------------------------------
(* SitemapSplitter.categorize_url                                          *)

\* for pattern in patterns: if re.search(pattern, path): the loop returns
RECURSIVE any_pattern(_, _, _)
any_pattern(patterns, j, path) ==
  IF j > Len(patterns) THEN FALSE
  ELSE IF re_search(patterns[j], path) THEN TRUE
  ELSE any_pattern(patterns, j + 1, path)

\* the loop over self.categories.items() that does not skip 'main'
RECURSIVE scan_categories_no_skip(_, _)
scan_categories_no_skip(i, path) ==
  IF i > Len(Categories) THEN Main
  ELSE IF any_pattern(Categories[i].patterns, 1, path) THEN Categories[i].name
  ELSE scan_categories_no_skip(i + 1, path)

\* the loop over self.categories.items(), from the i-th item on
RECURSIVE scan_categories(_, _)
scan_categories(i, path) ==
  IF i > Len(Categories)
  THEN \* no specific category matched: the main patterns, then the default
       IF any_pattern(category_data(Main).patterns, 1, path) THEN Main ELSE Main
  ELSE IF Categories[i].name = Main THEN scan_categories(i + 1, path)
  ELSE IF any_pattern(Categories[i].patterns, 1, path) THEN Categories[i].name
  ELSE scan_categories(i + 1, path)

categorize_url(url) ==
  IF url = None THEN AttributeError
  ELSE scan_categories(1, lower(replace(url, BaseUrl, <<>>)))


----------------------------------------------------------------------------
(* Inputs of the two pure-function specifications.                         *)

\* all sequences over S of length 0..n
RECURSIVE SeqsUpTo(_, _)
SeqsUpTo(S, n) ==
  IF n = 0 THEN {<<>>}
  ELSE LET shorter == SeqsUpTo(S, n - 1)
       IN  shorter \cup {Append(s, x) : s \in shorter, x \in S}

\* ''.join(parts)
RECURSIVE join(_)
join(parts) == IF Len(parts) = 0 THEN <<>> ELSE Head(parts) \o join(Tail(parts))

HrefHeads == {ToolsPrefix, <<"/","T","o","o","l","s","/">>, <<>>}
HrefChars == {"/", "a", "B"}
\* tool_pattern captures id and href with [^'"]+ : never empty
Hrefs   == {h \o t : h \in HrefHeads, t \in SeqsUpTo(HrefChars, MaxTail)} \ {<<>>}
ToolIds == {<<"x">>, <<"A","b">>}

UrlTokens == {BaseUrl, <<"/">>, <<"/","h","e","l","p">>, <<"L","o","a","n","-","C","a","l","c","u","l","a","t","o","r">>, <<"b","m","i","-","c","a","l","c","u","l","a","t","o","r">>,
              <<"m","e","r","g","e","-","p","d","f">>, <<"w","o","r","d","-","c","o","u","n","t","e","r">>, <<"\n">>}
TokenUrls == {join(ts) : ts \in SeqsUpTo(UrlTokens, MaxTokens)}

----------------------------------------------------------------------------
(* Ordered dicts (insertion order): sequences of [key, val].               *)

dict_keys(d) == [i \in 1..Len(d) |-> d[i].key]
dict_has(d, k) == \E i \in 1..Len(d) : d[i].key = k
dict_get(d, k) == d[CHOOSE i \in 1..Len(d) : d[i].key = k].val

\* d[k] = [x]: the list of an existing key is replaced
dict_overwrite(d, k, x) ==
  IF dict_has(d, k)
  THEN [i \in 1..Len(d) |-> IF d[i].key = k THEN [key |-> k, val |-> <<x>>] ELSE d[i]]
  ELSE Append(d, [key |-> k, val |-> <<x>>])

\* if k not in d: d[k] = []; then d[k].append(x)
dict_append(d, k, x) ==
  IF dict_has(d, k)
  THEN [i \in 1..Len(d) |->
          IF d[i].key = k THEN [key |-> k, val |-> Append(d[i].val, x)] ELSE d[i]]
  ELSE Append(d, [key |-> k, val |-> <<x>>])

----------------------------------------------------------------------------
(* Documents and the output directory.                                     *)

Weekly  == <<"w","e","e","k","l","y">>
Pri08   == <<"0",".","8">>

UrlEntry(loc, lastmod, changefreq, priority) ==
  [loc |-> loc, lastmod |-> lastmod, changefreq |-> changefreq, priority |-> priority]

UrlSet(entries)       == [kind |-> "urlset", entries |-> entries]
SitemapIndex(entries) == [kind |-> "sitemapindex", entries |-> entries]
\* a file left by an earlier run
StaleDoc == [kind |-> "stale", entries |-> <<>>]

IndexFile == <<"s","i","t","e","m","a","p",".","x","m","l">>
MainFile  == <<"s","i","t","e","m","a","p","-","m","a","i","n",".","x","m","l">>

\* with open(path, 'wb') as f: tree.write(f): the file holds the document
write_file(fs, name, doc) ==
  [n \in (DOMAIN fs) \cup {name} |-> IF n = name THEN doc ELSE fs[n]]

WriteRec(name, role, category, doc) ==
  [file |-> name, role |-> role, category |-> category, doc |-> doc]

----------------------------------------------------------------------------
(* ToolsSitemapGenerator                                                   *)

\* lines 45-62: one match of tool_pattern becomes one tool
parse_entry(e) ==
  LET href == normalize_href(e.id, e.href)
  IN  [id |-> e.id, name |-> e.name, description |-> e.description,
       category |-> e.category, href |-> href, url |-> BaseUrl \o href]

\* parse_tools_from_ts
parse_tools_from_ts(src) ==
  IF src.state = "missing" THEN <<>>
  ELSE IF src.state = "no_array" THEN <<>>
  ELSE [i \in 1..Len(src.entries) |-> parse_entry(src.entries[i])]

\* lines 69-74: the loop that fills `categorized`
RECURSIVE group_loop(_, _)
group_loop(d, ts) ==
  IF Len(ts) = 0 THEN d
  ELSE group_loop(dict_append(d, Head(ts).category, Head(ts)), Tail(ts))

\* line 78: categorized[category].sort(key=lambda x: x['name'])
sort_by_name(ts) ==
  LET r == sort_keyed([i \in 1..Len(ts) |-> [key |-> ts[i].name, val |-> ts[i]]])
  IN  [i \in 1..Len(r) |-> r[i].val]

\* group_tools_by_category
group_tools_by_category(ts) ==
  LET d == group_loop(<<>>, ts)
  IN  [i \in 1..Len(d) |-> [key |-> d[i].key, val |-> sort_by_name(d[i].val)]]

\* ToolsSitemapGenerator.create_sitemap_xml: the document written
tools_urlset(ts) ==
  UrlSet([i \in 1..Len(ts) |-> UrlEntry(ts[i].url, CurrentDate, Weekly, Pri08)])

\* create_main_sitemap: main_pages
MainPages == <<
  <<<<"/">>,                 <<"d","a","i","l","y">>,   <<"1",".","0">>>>,
  <<<<"/","a","b","o","u","t","-","u","s">>,         <<"m","o","n","t","h","l","y">>, <<"0",".","8">>>>,
  <<<<"/","c","o","n","t","a","c","t","-","u","s">>,       <<"m","o","n","t","h","l","y">>, <<"0",".","8">>>>,
  <<<<"/","p","r","i","v","a","c","y","-","p","o","l","i","c","y">>,   <<"y","e","a","r","l","y">>,  <<"0",".","5">>>>,
  <<<<"/","t","e","r","m","s","-","o","f","-","s","e","r","v","i","c","e">>, <<"y","e","a","r","l","y">>,  <<"0",".","5">>>>,
  <<<<"/","h","e","l","p","-","c","e","n","t","e","r">>,      <<"m","o","n","t","h","l","y">>, <<"0",".","7">>>>,
  <<<<"/","a","l","l","-","t","o","o","l","s">>,        <<"w","e","e","k","l","y">>,  <<"0",".","9">>>>,
  <<<<"/","f","i","n","a","n","c","e","-","t","o","o","l","s">>,    <<"w","e","e","k","l","y">>,  <<"0",".","9">>>>,
  <<<<"/","h","e","a","l","t","h","-","t","o","o","l","s">>,     <<"w","e","e","k","l","y">>,  <<"0",".","9">>>>,
  <<<<"/","t","e","x","t","-","t","o","o","l","s">>,       <<"w","e","e","k","l","y">>,  <<"0",".","9">>>> >>

\* create_main_sitemap: the document written
main_urlset ==
  UrlSet([i \in 1..Len(MainPages) |->
            UrlEntry(BaseUrl \o MainPages[i][1], CurrentDate, MainPages[i][2], MainPages[i][3])])

IndexEntry(loc) == [loc |-> loc, lastmod |-> CurrentDate]

\* line 168: for category in sorted(categories)
index_categories(categories) == sorted(categories)

\* ToolsSitemapGenerator.create_sitemap_index: the document written
tools_index(categories) ==
  LET cs == index_categories(categories)
  IN  SitemapIndex(<<IndexEntry(BaseUrl \o <<"/","s","i","t","e","m","a","p","-","m","a","i","n",".","x","m","l">>)>> \o
                   [i \in 1..Len(cs) |-> IndexEntry(BaseUrl \o <<"/">> \o SitemapFile(cs[i]))])

----------------------------------------------------------------------------
(* SitemapSplitter                                                         *)

\* create_example_urls
ExamplePages == <<
  <<<<"/">>, <<"d","a","i","l","y">>, <<"1",".","0">>>>,
  <<<<"/","a","b","o","u","t">>, <<"m","o","n","t","h","l","y">>, <<"0",".","8">>>>,
  <<<<"/","c","o","n","t","a","c","t">>, <<"m","o","n","t","h","l","y">>, <<"0",".","8">>>>,
  <<<<"/","p","r","i","v","a","c","y">>, <<"y","e","a","r","l","y">>, <<"0",".","5">>>>,
  <<<<"/","t","e","r","m","s">>, <<"y","e","a","r","l","y">>, <<"0",".","5">>>>,
  <<<<"/","h","e","l","p">>, <<"m","o","n","t","h","l","y">>, <<"0",".","7">>>>,
  <<<<"/","t","o","o","l","s">>, <<"w","e","e","k","l","y">>, <<"0",".","9">>>>,
  <<<<"/","t","o","o","l","s","/","l","o","a","n","-","c","a","l","c","u","l","a","t","o","r">>, <<"w","e","e","k","l","y">>, <<"0",".","8">>>>,
  <<<<"/","t","o","o","l","s","/","m","o","r","t","g","a","g","e","-","c","a","l","c","u","l","a","t","o","r">>, <<"w","e","e","k","l","y">>, <<"0",".","8">>>>,
  <<<<"/","t","o","o","l","s","/","e","m","i","-","c","a","l","c","u","l","a","t","o","r">>, <<"w","e","e","k","l","y">>, <<"0",".","8">>>>,
  <<<<"/","t","o","o","l","s","/","c","o","m","p","o","u","n","d","-","i","n","t","e","r","e","s","t","-","c","a","l","c","u","l","a","t","o","r">>, <<"w","e","e","k","l","y">>, <<"0",".","8">>>>,
  <<<<"/","t","o","o","l","s","/","t","a","x","-","c","a","l","c","u","l","a","t","o","r">>, <<"w","e","e","k","l","y">>, <<"0",".","8">>>>,
  <<<<"/","t","o","o","l","s","/","p","a","y","p","a","l","-","f","e","e","-","c","a","l","c","u","l","a","t","o","r">>, <<"w","e","e","k","l","y">>, <<"0",".","8">>>>,
  <<<<"/","t","o","o","l","s","/","b","m","i","-","c","a","l","c","u","l","a","t","o","r">>, <<"w","e","e","k","l","y">>, <<"0",".","8">>>>,
  <<<<"/","t","o","o","l","s","/","b","m","r","-","c","a","l","c","u","l","a","t","o","r">>, <<"w","e","e","k","l","y">>, <<"0",".","8">>>>,
  <<<<"/","t","o","o","l","s","/","c","a","l","o","r","i","e","-","c","a","l","c","u","l","a","t","o","r">>, <<"w","e","e","k","l","y">>, <<"0",".","8">>>>,
  <<<<"/","t","o","o","l","s","/","b","o","d","y","-","f","a","t","-","c","a","l","c","u","l","a","t","o","r">>, <<"w","e","e","k","l","y">>, <<"0",".","8">>>>,
  <<<<"/","t","o","o","l","s","/","w","o","r","d","-","c","o","u","n","t","e","r">>, <<"w","e","e","k","l","y">>, <<"0",".","8">>>>,
  <<<<"/","t","o","o","l","s","/","c","h","a","r","a","c","t","e","r","-","c","o","u","n","t","e","r">>, <<"w","e","e","k","l","y">>, <<"0",".","8">>>>,
  <<<<"/","t","o","o","l","s","/","c","a","s","e","-","c","o","n","v","e","r","t","e","r">>, <<"w","e","e","k","l","y">>, <<"0",".","8">>>>,
  <<<<"/","t","o","o","l","s","/","p","a","s","s","w","o","r","d","-","g","e","n","e","r","a","t","o","r">>, <<"w","e","e","k","l","y">>, <<"0",".","8">>>>,
  <<<<"/","t","o","o","l","s","/","m","e","r","g","e","-","p","d","f">>, <<"w","e","e","k","l","y">>, <<"0",".","8">>>>,
  <<<<"/","t","o","o","l","s","/","s","p","l","i","t","-","p","d","f">>, <<"w","e","e","k","l","y">>, <<"0",".","8">>>>,
  <<<<"/","t","o","o","l","s","/","c","o","m","p","r","e","s","s","-","p","d","f">>, <<"w","e","e","k","l","y">>, <<"0",".","8">>>> >>

create_example_urls ==
  [i \in 1..Len(ExamplePages) |->
     UrlEntry(BaseUrl \o ExamplePages[i][1], CurrentDate, ExamplePages[i][2], ExamplePages[i][3])]

\* lines 196-202: the tuple appended for a <url> element that has a <loc>;
\* x.text is None when the element is empty
url_tuple(elem) ==
  UrlEntry(elem.loc,
           IF elem.lastmod # Absent THEN elem.lastmod ELSE CurrentDate,
           IF elem.changefreq # Absent THEN elem.changefreq ELSE Weekly,
           IF elem.priority # Absent THEN elem.priority ELSE Pri08)

\* lines 189-202: the loop over the <url> elements
RECURSIVE collect_urls(_)
collect_urls(doc) ==
  IF Len(doc) = 0 THEN <<>>
  ELSE IF Head(doc).loc # Absent
       THEN <<url_tuple(Head(doc))>> \o collect_urls(Tail(doc))
       ELSE collect_urls(Tail(doc))

\* parse_existing_sitemap
parse_existing_sitemap(inp) ==
  IF inp.state = "missing" THEN create_example_urls
  ELSE IF inp.state = "unparseable" THEN create_example_urls
  ELSE collect_urls(inp.doc)

\* line 340: {category: [] for category in self.categories.keys()}
empty_groups == [i \in 1..Len(Categories) |-> [key |-> Categories[i].name, val |-> <<>>]]

\* lines 342-345: the loop that fills categorized_urls; `raised` when
\* categorize_url raises AttributeError, which nothing catches
RECURSIVE categorize_loop(_, _)
categorize_loop(d, urls) ==
  IF Len(urls) = 0 THEN [raised |-> FALSE, groups |-> d]
  ELSE LET category == categorize_url(Head(urls).loc)
       IN  IF category = AttributeError THEN [raised |-> TRUE, groups |-> d]
           ELSE categorize_loop(dict_append(d, category, Head(urls)), Tail(urls))

\* SitemapSplitter.create_sitemap_index: the document written
splitter_index ==
  SitemapIndex([i \in 1..Len(Categories) |->
                  IndexEntry(BaseUrl \o <<"/">> \o Categories[i].file)])

\* the printed summary: one count per item of the dict
summary(d) == [i \in 1..Len(d) |-> [key |-> d[i].key, count |-> Len(d[i].val)]]

----------------------------------------------------------------------------
(* Inputs of a run.                                                        *)

Entry(id, name, category, href) ==
  [id |-> id, name |-> name, description |-> <<>>, category |-> category, href |-> href]

\* catalogue entries: two finance tools share a display name, one tool carries
\* the label 'main', one href lacks the /tools/ prefix, one ends in a slash
SampleEntries == {
  Entry(<<"b","m","i">>,  <<"B","m","i">>,  Health,  <<"/","t","o","o","l","s","/","b","m","i">>),
  Entry(<<"l","o","a","n">>, <<"L","o","a","n">>, Finance, <<"/","t","o","o","l","s","/","l","o","a","n","/">>),
  Entry(<<"e","m","i">>,  <<"L","o","a","n">>, Finance, <<"/","T","o","o","l","s","/","E","M","I">>),
  Entry(<<"t","a","x">>,  <<"A","t","a","x">>, Finance, <<"/","t","o","o","l","s","/","/","t","a","x">>),
  Entry(<<"h","o","m","e">>, <<"H","o","m","e">>, Main,    <<"/","t","o","o","l","s","/","h","o","m","e">>) }

Sources ==
  {[state |-> "missing", entries |-> <<>>], [state |-> "no_array", entries |-> <<>>]}
  \cup {[state |-> "ok", entries |-> es] : es \in SeqsUpTo(SampleEntries, MaxTools)}

Elem(loc, lastmod, changefreq, priority) ==
  [loc |-> loc, lastmod |-> lastmod, changefreq |-> changefreq, priority |-> priority]

OldDate == <<"2","0","2","4","-","0","6","-","3","0">>
Daily   == <<"d","a","i","l","y">>
Pri05   == <<"0",".","5">>
LoanUrl == BaseUrl \o <<"/","t","o","o","l","s","/","l","o","a","n","-","c","a","l","c","u","l","a","t","o","r">>

SampleLocs == {
  BaseUrl \o <<"/">>,
  LoanUrl,
  BaseUrl \o <<"/","T","o","o","l","s","/","B","M","I","-","C","a","l","c","u","l","a","t","o","r">>,
  BaseUrl \o <<"/","t","o","o","l","s","/","m","e","r","g","e","-","p","d","f","/">>,
  BaseUrl \o <<"/","t","o","o","l","s","/","p","d","f","-","t","o","-","w","o","r","d","-","c","o","u","n","t","e","r">>,
  None, Absent }

\* <url> elements: every kind of <loc> with all children present, and one
\* location with a child missing or empty
SampleElems ==
  {Elem(loc, OldDate, Daily, Pri05) : loc \in SampleLocs}
  \cup {Elem(LoanUrl, Absent, Daily, Pri05), Elem(LoanUrl, OldDate, Absent, Pri05),
        Elem(LoanUrl, OldDate, Daily, Absent), Elem(LoanUrl, None, None, None)}

Inputs ==
  {[state |-> "missing", doc |-> <<>>], [state |-> "unparseable", doc |-> <<>>]}
  \cup {[state |-> "ok", doc |-> d] : d \in SeqsUpTo(SampleElems, MaxUrls)}

NoFiles == <<>>
\* an output directory that holds the files of an earlier run
StaleFiles == write_file(write_file(NoFiles, IndexFile, StaleDoc), SitemapFile(Health), StaleDoc)

NoSource == [state |-> "missing", entries |-> <<>>]
NoInput  == [state |-> "missing", doc |-> <<>>]

----------------------------------------------------------------------------
(* Specification Spec: one run of generate_sitemaps or of split_sitemap.   *)

RunIdle ==
  /\ prog = "none" /\ pc = "idle"
  /\ source = NoSource /\ input = NoInput
  /\ tools = <<>> /\ all_urls = <<>> /\ categorized = <<>> /\ todo = 0
  /\ dir_created = FALSE /\ files = NoFiles /\ writes = <<>> /\ report = <<>>

NormIdle == n_id = <<>> /\ n_href = <<>> /\ n_out = <<>> /\ n_stage = "idle"
CatIdle  == c_url = <<>> /\ c_result = <<>> /\ c_stage = "idle"
RoundIdle == r_urls = <<>> /\ r_file = <<>> /\ r_back = <<>> /\ r_stage = "idle"

Init ==
  /\ NormIdle /\ CatIdle /\ RoundIdle
  /\ prog \in {"generate", "split"}
  /\ pc = "start"
  /\ source \in (IF prog = "generate" THEN Sources ELSE {NoSource})
  /\ input \in (IF prog = "split" THEN Inputs ELSE {NoInput})
  /\ files \in {NoFiles, StaleFiles}
  /\ tools = <<>> /\ all_urls = <<>> /\ categorized = <<>> /\ todo = 0
  /\ dir_created = FALSE /\ writes = <<>> /\ report = <<>>

Pure == UNCHANGED normVars /\ UNCHANGED catVars /\ UNCHANGED roundVars

\* a guard that never holds
never(xs) == FALSE
\* a guard that always holds
always(xs) == TRUE

\* generate_sitemaps, line 196: if not tools
no_tools(ts) == Len(ts) = 0
\* generate_sitemaps, line 217: if tools_in_category
has_tools(ts) == Len(ts) > 0
\* split_sitemap, line 335: if not all_urls
no_urls(urls) == Len(urls) = 0
\* split_sitemap, line 354: if urls
has_urls(urls) == Len(urls) > 0

\* generate_sitemaps, line 194
GenParse ==
  /\ prog = "generate" /\ pc = "start"
  /\ tools' = parse_tools_from_ts(source)
  /\ pc' = "parsed"
  /\ UNCHANGED <<prog, source, input, all_urls, categorized, todo, dir_created,
                 files, writes, report>>
  /\ Pure

\* generate_sitemaps, lines 196-198: if not tools: return
GenNoTools ==
  /\ prog = "generate" /\ pc = "parsed"
  /\ no_tools(tools)
  /\ pc' = "done"
  /\ UNCHANGED <<prog, source, input, tools, all_urls, categorized, todo,
                 dir_created, files, writes, report>>
  /\ Pure

\* generate_sitemaps, lines 200-213: group, report, os.makedirs
GenGroup ==
  /\ prog = "generate" /\ pc = "parsed"
  /\ ~no_tools(tools)
  /\ categorized' = group_tools_by_category(tools)
  /\ report' = summary(categorized')
  /\ dir_created' = TRUE
  /\ todo' = 1
  /\ pc' = "categories"
  /\ UNCHANGED <<prog, source, input, tools, all_urls, files, writes>>
  /\ Pure

\* generate_sitemaps, lines 216-219: one iteration of the loop
GenWriteCategory ==
  /\ prog = "generate" /\ pc = "categories"
  /\ todo <= Len(categorized)
  /\ LET category == categorized[todo].key
         items    == categorized[todo].val
         filename == SitemapFile(category)
         doc      == tools_urlset(items)
     IN  IF has_tools(items)
         THEN /\ files' = write_file(files, filename, doc)
              /\ writes' = Append(writes, WriteRec(filename, "category", category, doc))
         ELSE UNCHANGED <<files, writes>>
  /\ todo' = todo + 1
  /\ UNCHANGED <<prog, pc, source, input, tools, all_urls, categorized,
                 dir_created, report>>
  /\ Pure

\* generate_sitemaps, line 222: create_main_sitemap
GenWriteMain ==
  /\ prog = "generate" /\ pc = "categories"
  /\ todo > Len(categorized)
  /\ files' = write_file(files, MainFile, main_urlset)
  /\ writes' = Append(writes, WriteRec(MainFile, "main", Main, main_urlset))
  /\ pc' = "index"
  /\ UNCHANGED <<prog, source, input, tools, all_urls, categorized, todo,
                 dir_created, report>>
  /\ Pure

\* generate_sitemaps, line 225: create_sitemap_index(list(categorized_tools.keys()))
GenWriteIndex ==
  /\ prog = "generate" /\ pc = "index"
  /\ LET doc == tools_index(dict_keys(categorized))
     IN  /\ files' = write_file(files, IndexFile, doc)
         /\ writes' = Append(writes, WriteRec(IndexFile, "index", <<>>, doc))
  /\ pc' = "done"
  /\ UNCHANGED <<prog, source, input, tools, all_urls, categorized, todo,
                 dir_created, report>>
  /\ Pure

\* split_sitemap, line 333
SplitParse ==
  /\ prog = "split" /\ pc = "start"
  /\ all_urls' = parse_existing_sitemap(input)
  /\ pc' = "parsed"
  /\ UNCHANGED <<prog, source, input, tools, categorized, todo, dir_created,
                 files, writes, report>>
  /\ Pure

\* split_sitemap, lines 335-337: if not all_urls: return
SplitNoUrls ==
  /\ prog = "split" /\ pc = "parsed"
  /\ no_urls(all_urls)
  /\ pc' = "done"
  /\ UNCHANGED <<prog, source, input, tools, all_urls, categorized, todo,
                 dir_created, files, writes, report>>
  /\ Pure

\* split_sitemap, lines 339-350: categorize and report; an AttributeError of
\* categorize_url ends the run
SplitCategorize ==
  /\ prog = "split" /\ pc = "parsed"
  /\ ~no_urls(all_urls)
  /\ LET r == categorize_loop(empty_groups, all_urls)
     IN  IF r.raised
         THEN /\ pc' = "raised"
              /\ UNCHANGED <<categorized, report, todo>>
         ELSE /\ categorized' = r.groups
              /\ report' = summary(r.groups)
              /\ todo' = 1
              /\ pc' = "categories"
  /\ UNCHANGED <<prog, source, input, tools, all_urls, dir_created, files, writes>>
  /\ Pure

\* SitemapSplitter.create_sitemap_xml: the document written
splitter_urlset(urls) == UrlSet(urls)

\* split_sitemap, lines 353-356: one iteration of the loop
SplitWriteCategory ==
  /\ prog = "split" /\ pc = "categories"
  /\ todo <= Len(categorized)
  /\ LET category == categorized[todo].key
         urls     == categorized[todo].val
         filename == category_data(category).file
         doc      == splitter_urlset(urls)
     IN  IF has_urls(urls)
         THEN /\ files' = write_file(files, filename, doc)
              /\ writes' = Append(writes, WriteRec(filename, "category", category, doc))
         ELSE UNCHANGED <<files, writes>>
  /\ todo' = todo + 1
  /\ UNCHANGED <<prog, pc, source, input, tools, all_urls, categorized,
                 dir_created, report>>
  /\ Pure

\* split_sitemap, line 359: create_sitemap_index
SplitWriteIndex ==
  /\ prog = "split" /\ pc = "categories"
  /\ todo > Len(categorized)
  /\ files' = write_file(files, IndexFile, splitter_index)
  /\ writes' = Append(writes, WriteRec(IndexFile, "index", <<>>, splitter_index))
  /\ pc' = "done"
  /\ UNCHANGED <<prog, source, input, tools, all_urls, categorized, todo,
                 dir_created, report>>
  /\ Pure

Next ==
  \/ GenParse \/ GenNoTools \/ GenGroup \/ GenWriteCategory \/ GenWriteMain
  \/ GenWriteIndex
  \/ SplitParse \/ SplitNoUrls \/ SplitCategorize \/ SplitWriteCategory
  \/ SplitWriteIndex

Spec == Init /\ [][Next]_vars

----------------------------------------------------------------------------
(* Specification SpecNorm: the href normalization applied to its own       *)
(* output.                                                                 *)

InitNorm ==
  /\ RunIdle /\ CatIdle /\ RoundIdle
  /\ n_id \in ToolIds
  /\ n_href \in Hrefs
  /\ n_out = <<>>
  /\ n_stage = "raw"

\* parse_tools_from_ts normalizes the href of an entry
NormalizeEntry ==
  /\ n_stage = "raw"
  /\ n_out' = <<normalize_href(n_id, n_href)>>
  /\ n_stage' = "once"
  /\ UNCHANGED <<n_id, n_href>>
  /\ UNCHANGED runVars /\ UNCHANGED catVars /\ UNCHANGED roundVars

\* the stored href is written back as the entry's href and normalized again
NormalizeAgain ==
  /\ n_stage = "once"
  /\ n_out' = Append(n_out, normalize_href(n_id, n_out[1]))
  /\ n_stage' = "twice"
  /\ UNCHANGED <<n_id, n_href>>
  /\ UNCHANGED runVars /\ UNCHANGED catVars /\ UNCHANGED roundVars

NextNorm == NormalizeEntry \/ NormalizeAgain
SpecNorm == InitNorm /\ [][NextNorm]_vars

----------------------------------------------------------------------------
(* Specification SpecCat: categorize_url applied to one URL.               *)

InitCat ==
  /\ RunIdle /\ NormIdle /\ RoundIdle
  /\ c_url \in TokenUrls
  /\ c_result = <<>>
  /\ c_stage = "call"

Categorize ==
  /\ c_stage = "call"
  /\ c_result' = categorize_url(c_url)
  /\ c_stage' = "returned"
  /\ UNCHANGED c_url
  /\ UNCHANGED runVars /\ UNCHANGED normVars /\ UNCHANGED roundVars

NextCat == Categorize
SpecCat == InitCat /\ [][NextCat]_vars

----------------------------------------------------------------------------
(* Claims about categorize_url.                                            *)

\* the order of the non-fallback categories the configuration declares
NonFallbackOrder == <<Finance, Health, Pdf, Text>>

\* the path categorize_url matches against
PathOf(url) == lower(replace(url, BaseUrl, <<>>))

\* some pattern of the category matches somewhere in the path
CategoryMatches(name, path) ==
  \E j \in 1..Len(category_data(name).patterns) :
    re_search(category_data(name).patterns[j], path)

MatchingRanks(path) ==
  {i \in 1..Len(NonFallbackOrder) : CategoryMatches(NonFallbackOrder[i], path)}

EarliestMatching(path) ==
  LET ranks == MatchingRanks(path)
  IN  IF ranks = {} THEN Main
      ELSE NonFallbackOrder[CHOOSE i \in ranks : \A k \in ranks : i <= k]

\* C1: categorize_url returns the earliest of finance, health, pdf, text that has
\* a pattern matching anywhere in the lowercased path, and 'main' when none of
\* the four has one, whether or not a 'main' pattern matches.
C1_EarliestCategoryWins ==
  c_stage = "returned" => c_result = EarliestMatching(PathOf(c_url))

\* a URL matched by a 'main' pattern and by patterns of health and of pdf, and
\* of no earlier category, has been categorized as health
C1_Witness ==
  /\ c_stage = "returned"
  /\ CategoryMatches(Main, PathOf(c_url))
  /\ MatchingRanks(PathOf(c_url)) = {2, 3}
  /\ c_result = Health

----------------------------------------------------------------------------
(* Claims about the href normalization.                                    *)

\* C3: the href normalization of parse_tools_from_ts is idempotent: applied to
\* its own output with the same id it returns that output unchanged.
C3_NormalizeIdempotent ==
  n_stage = "twice" => n_out[2] = n_out[1]

----------------------------------------------------------------------------
(* Claims about a run.                                                     *)

\* the grouping step of the run has completed
Grouped == pc \in {"categories", "index"} \/ (pc = "done" /\ Len(categorized) > 0)

\* the records the run grouped
InputRecords == IF prog = "generate" THEN tools ELSE all_urls

Count(s, x) == Cardinality({i \in 1..Len(s) : s[i] = x})
Range(s) == {s[i] : i \in 1..Len(s)}

RECURSIVE SumCounts(_)
SumCounts(r) == IF Len(r) = 0 THEN 0 ELSE Head(r).count + SumCounts(Tail(r))

\* the group a record belongs in: its label, or what categorize_url returns
GroupOf(rec) == IF prog = "generate" THEN rec.category ELSE categorize_url(rec.loc)

\* C2: after the grouping step every input record is in exactly one group exactly
\* as often as it is in the input, no group holds anything else, the group is the
\* record's category (one of the configured names on the existing-sitemap path),
\* no key occurs twice, and the reported counts sum to the number of records.
C2_GroupsPartitionInput ==
  Grouped =>
    /\ \A i, j \in 1..Len(categorized) :
         categorized[i].key = categorized[j].key => i = j
    /\ \A rec \in Range(InputRecords) :
         LET group == GroupOf(rec)
         IN  /\ dict_has(categorized, group)
             /\ \A i \in 1..Len(categorized) :
                  Count(categorized[i].val, rec) =
                    IF categorized[i].key = group THEN Count(InputRecords, rec) ELSE 0
    /\ \A i \in 1..Len(categorized) : Range(categorized[i].val) \subseteq Range(InputRecords)
    /\ prog = "split" => Range(dict_keys(categorized)) = CategoryNames
    /\ report = summary(categorized)
    /\ SumCounts(report) = Len(InputRecords)

\* a run has grouped an input in which one record occurs twice and another
\* record belongs to a different group
C2_Witness ==
  /\ Grouped
  /\ \E rec \in Range(InputRecords) : Count(InputRecords, rec) = 2
  /\ \E a, b \in Range(InputRecords) : GroupOf(a) # GroupOf(b)

\* the run has written its index
IndexWritten == pc = "done" /\ \E i \in 1..Len(writes) : writes[i].role = "index"

IndexLocs == LET es == writes[Len(writes)].doc.entries IN [i \in 1..Len(es) |-> es[i].loc]

MainLoc == BaseUrl \o <<"/","s","i","t","e","m","a","p","-","m","a","i","n",".","x","m","l">>
FileLoc(name) == BaseUrl \o <<"/">> \o name

\* the category sitemap files the run wrote
CategoryFilesWritten == {writes[i].file : i \in {k \in 1..Len(writes) : writes[k].role = "category"}}

\* C4: the index holds an entry for the main sitemap and an entry for every
\* category sitemap file written in the run, and no entry for a category whose
\* file was not written, in generate_sitemaps and in split_sitemap.
C4_IndexListsExactlyWrittenFiles ==
  IndexWritten =>
    /\ MainLoc \in Range(IndexLocs)
    /\ \A f \in CategoryFilesWritten : FileLoc(f) \in Range(IndexLocs)
    /\ \A loc \in Range(IndexLocs) :
         loc = MainLoc \/ \E f \in CategoryFilesWritten : loc = FileLoc(f)

\* the categories the data of the run gave records to; 'main' is the index's
\* own first entry on the existing-sitemap path
DataCategories ==
  LET ks == dict_keys(categorized)
      nonempty == {i \in 1..Len(ks) : Len(categorized[i].val) > 0
                                     /\ (prog = "split" => ks[i] # Main)}
  IN  {ks[i] : i \in nonempty}

\* a set of strings as the ascending list
RECURSIVE AscendingList(_)
AscendingList(S) ==
  IF S = {} THEN <<>>
  ELSE LET least == CHOOSE x \in S : \A y \in S : str_le(x, y)
       IN  <<least>> \o AscendingList(S \ {least})

\* C5: the index lists sitemap-main.xml first, then exactly one entry per
\* data-derived category in ascending alphabetical order of the category name.
C5_IndexMainThenSortedCategories ==
  IndexWritten =>
    IndexLocs = <<MainLoc>> \o
                [i \in 1..Cardinality(DataCategories) |->
                   FileLoc(SitemapFile(AscendingList(DataCategories)[i]))]

\* the category loop of the run is over
CategoriesWritten == Grouped /\ (pc = "categories" => todo > Len(categorized))

CategoryWrites(c) == {i \in 1..Len(writes) : writes[i].role = "category" /\ writes[i].category = c}

\* C6: a category sitemap file is written if and only if at least one record was
\* assigned to the category: no write for an empty group, exactly one write for
\* every other group, to the file named after the category alone, holding the
\* group's records.
C6_FileIffNonEmptyGroup ==
  CategoriesWritten =>
    /\ \A i \in 1..Len(categorized) :
         LET c == categorized[i].key
         IN  /\ Cardinality(CategoryWrites(c)) = IF Len(categorized[i].val) > 0 THEN 1 ELSE 0
             /\ \A w \in CategoryWrites(c) :
                  /\ writes[w].file = SitemapFile(c)
                  /\ Len(writes[w].doc.entries) = Len(categorized[i].val)
    /\ \A w \in 1..Len(writes) :
         writes[w].role = "category" => dict_has(categorized, writes[w].category)

\* a run has finished its category loop with one group empty and two not
C6_Witness ==
  /\ CategoriesWritten
  /\ \E i \in 1..Len(categorized) :
       Len(categorized[i].val) = 0 /\ CategoryWrites(categorized[i].key) = {}
  /\ Cardinality(CategoryFilesWritten) = 2

\* the run ended on an input that gave no record
EndedOnEmptyInput ==
  /\ pc = "done"
  /\ \/ prog = "generate" /\ Len(tools) = 0
     \/ prog = "split" /\ Len(all_urls) = 0

\* C7 as stated: on an empty input the run writes no category sitemap file but
\* writes the main sitemap and an index that references it.
C7_EmptyInputWritesMainAndIndex ==
  EndedOnEmptyInput =>
    /\ CategoryFilesWritten = {}
    /\ \E i \in 1..Len(writes) : writes[i].role = "main"
    /\ \E i \in 1..Len(writes) :
         /\ writes[i].role = "index"
         /\ \E k \in 1..Len(writes[i].doc.entries) : writes[i].doc.entries[k].loc = MainLoc

\* C7 amended: on an empty input the run writes no file at all: no category
\* sitemap, no main sitemap and no index.
C7_EmptyInputWritesNothing ==
  EndedOnEmptyInput => Len(writes) = 0

\* a run over a parseable input that holds no record has ended
C7_Witness ==
  /\ EndedOnEmptyInput
  /\ \/ prog = "generate" /\ source.state = "ok"
     \/ prog = "split" /\ input.state = "ok" /\ Len(input.doc) > 0

\* the catalogue is missing, holds no toolsData array, or yields no entry
EmptySource ==
  /\ prog = "generate"
  /\ source.state \in {"missing", "no_array"} \/ Len(source.entries) = 0

\* C8: on the catalogue path, with the source missing, without a toolsData array
\* or without entries, no step of generate_sitemaps creates the directory, writes
\* a file or changes a file.
C8_EmptySourceIsNoOp ==
  [][EmptySource => /\ ~dir_created'
                    /\ files' = files
                    /\ writes' = <<>>]_vars

\* generate_sitemaps has returned on a source without a toolsData array, in a
\* directory that holds the files of an earlier run
C8_Witness ==
  /\ EmptySource /\ pc = "done"
  /\ source.state = "no_array"
  /\ IndexFile \in DOMAIN files

\* C9: split_sitemap terminates normally without raising, whatever the input
\* file holds.
C9_SplitNeverRaises ==
  prog = "split" => pc # "raised"

\* the orderings of a list
Orderings(s) == {[i \in 1..Len(s) |-> s[p[i]]] : p \in Permutations(1..Len(s))}

\* C10: for any two orderings of the same catalogue group_tools_by_category
\* yields the same ordered sequence of records for every category.
C10_GroupsIndependentOfSourceOrder ==
  (prog = "generate" /\ Grouped) =>
    \A q \in Orderings(tools) :
      \A i \in 1..Len(categorized) :
        dict_get(group_tools_by_category(q), categorized[i].key) = categorized[i].val

----------------------------------------------------------------------------
(* ElementTree: how the text of a leaf element is written and read back.   *)

Amp == "&"
Lt  == "<"
Gt  == ">"
CR  == "\r"
LF  == "\n"
AmpEntity == <<"&","a","m","p",";">>
LtEntity  == <<"&","l","t",";">>
GtEntity  == <<"&","g","t",";">>

\* _escape_cdata: '&', '<' and '>' become entities, in this order
xml_escape(text) ==
  replace(replace(replace(text, <<Amp>>, AmpEntity), <<Lt>>, LtEntity), <<Gt>>, GtEntity)

\* tree.write: <tag>escaped text</tag> when the text is truthy, <tag /> when
\* it is None or ''; the result is what stands between the tags (nothing for
\* <tag />)
element_content(text) ==
  IF text = None \/ Len(text) = 0 THEN <<>> ELSE xml_escape(text)

\* the parser: entities are resolved, '\r\n' and '\r' are read as '\n'
RECURSIVE xml_unescape(_)
xml_unescape(c) ==
  IF Len(c) = 0 THEN <<>>
  ELSE IF startswith(c, AmpEntity) THEN <<Amp>> \o xml_unescape(SubSeq(c, 6, Len(c)))
  ELSE IF startswith(c, LtEntity) THEN <<Lt>> \o xml_unescape(SubSeq(c, 5, Len(c)))
  ELSE IF startswith(c, GtEntity) THEN <<Gt>> \o xml_unescape(SubSeq(c, 5, Len(c)))
  ELSE IF startswith(c, <<CR, LF>>) THEN <<LF>> \o xml_unescape(SubSeq(c, 3, Len(c)))
  ELSE IF Head(c) = CR THEN <<LF>> \o xml_unescape(Tail(c))
  ELSE <<Head(c)>> \o xml_unescape(Tail(c))

\* Element.text of a parsed leaf element: None when it has no content
element_text(content) ==
  IF Len(content) = 0 THEN None ELSE xml_unescape(content)

\* SitemapSplitter.create_sitemap_xml: the <url> elements of the file written,
\* each with its four children
written_urlset(urls) ==
  [i \in 1..Len(urls) |->
     [loc        |-> element_content(urls[i].loc),
      lastmod    |-> element_content(urls[i].lastmod),
      changefreq |-> element_content(urls[i].changefreq),
      priority   |-> element_content(urls[i].priority)]]

\* ET.parse of a file create_sitemap_xml wrote: the <url> elements with the
\* text of their children, as parse_existing_sitemap's loop finds them
parsed_urlset(doc) ==
  [i \in 1..Len(doc) |->
     Elem(element_text(doc[i].loc), element_text(doc[i].lastmod),
          element_text(doc[i].changefreq), element_text(doc[i].priority))]

----------------------------------------------------------------------------
(* Specification SpecRound: a list of tuples is written by                 *)
(* create_sitemap_xml and the file is read back by parse_existing_sitemap. *)

RoundLocs == {<<"a">>, <<>>, <<"a","&","<","b",">">>, <<"a","\r","b">>}
RoundDates == {OldDate, <<>>}
RoundPriorities == {Pri05, <<>>}

RoundTuples ==
  {UrlEntry(l, m, Daily, p) : l \in RoundLocs, m \in RoundDates, p \in RoundPriorities}

InitRound ==
  /\ RunIdle /\ NormIdle /\ CatIdle
  /\ r_urls \in SeqsUpTo(RoundTuples, MaxRecs)
  /\ r_file = <<>>
  /\ r_back = <<>>
  /\ r_stage = "built"

\* create_sitemap_xml(urls, filename)
RoundWrite ==
  /\ r_stage = "built"
  /\ r_file' = written_urlset(r_urls)
  /\ r_stage' = "written"
  /\ UNCHANGED <<r_urls, r_back>>
  /\ UNCHANGED runVars /\ UNCHANGED normVars /\ UNCHANGED catVars

\* parse_existing_sitemap() on the file written
RoundRead ==
  /\ r_stage = "written"
  /\ r_back' = parse_existing_sitemap([state |-> "ok", doc |-> parsed_urlset(r_file)])
  /\ r_stage' = "read"
  /\ UNCHANGED <<r_urls, r_file>>
  /\ UNCHANGED runVars /\ UNCHANGED normVars /\ UNCHANGED catVars

NextRound == RoundWrite \/ RoundRead
SpecRound == InitRound /\ [][NextRound]_vars

\* C11: reading back a file written by create_sitemap_xml yields the same set
\* of (url, lastmod, changefreq, priority) tuples the file was built from, for
\* the empty list and for tuples with empty string fields too.
C11_RoundTrip ==
  r_stage = "read" => Range(r_back) = Range(r_urls)

----------------------------------------------------------------------------
(* Specification SpecWrite: the run of Spec with every file write in its   *)
(* two steps: open(path, 'wb') truncates the file, then tree.write(f)      *)
(* writes the document. Either step can fail with OSError, which nothing   *)
(* in the scripts catches.                                                 *)

\* a file open(path, 'wb') has truncated and tree.write has not completed
Truncated == [kind |-> "truncated", entries |-> <<>>]

\* the file the next write of the run goes to, if the next step is a write
PendingFiles ==
  IF pc = "categories" /\ todo <= Len(categorized)
  THEN IF prog = "generate"
       THEN IF has_tools(categorized[todo].val)
            THEN {SitemapFile(categorized[todo].key)} ELSE {}
       ELSE IF has_urls(categorized[todo].val)
            THEN {category_data(categorized[todo].key).file} ELSE {}
  ELSE IF pc = "categories" THEN (IF prog = "generate" THEN {MainFile} ELSE {IndexFile})
  ELSE IF pc = "index" THEN {IndexFile}
  ELSE {}

IsOpen(name) == name \in DOMAIN files /\ files[name] = Truncated

\* with open(filepath, 'wb') as f: the file exists and is empty
OpenFile ==
  /\ \E f \in PendingFiles :
       /\ ~IsOpen(f)
       /\ files' = write_file(files, f, Truncated)
  /\ UNCHANGED <<prog, pc, source, input, tools, all_urls, categorized, todo,
                 dir_created, writes, report>>
  /\ Pure

\* open() raises OSError: the run ends, the file is as it was
FailOpen ==
  /\ \E f \in PendingFiles : ~IsOpen(f)
  /\ pc' = "raised"
  /\ UNCHANGED <<prog, source, input, tools, all_urls, categorized, todo,
                 dir_created, files, writes, report>>
  /\ Pure

\* tree.write(f) raises OSError part way: the run ends, the file holds a part
\* of the document at most
FailWrite ==
  /\ \E f \in PendingFiles : IsOpen(f)
  /\ pc' = "raised"
  /\ UNCHANGED <<prog, source, input, tools, all_urls, categorized, todo,
                 dir_created, files, writes, report>>
  /\ Pure

\* a step of the run; a step that writes a file is tree.write(f) completing on
\* the file opened before
RunStep ==
  /\ \A f \in PendingFiles : IsOpen(f)
  /\ Next

NextWrite == OpenFile \/ FailOpen \/ FailWrite \/ RunStep
SpecWrite == Init /\ [][NextWrite]_vars

\* C12: in every state of a run, also of one that fails in a file write, every
\* file of the output directory is untouched (absent or with its earlier
\* content) or holds a complete document: none is partially written.
C12_NoPartialFile ==
  \A n \in DOMAIN files : files[n].kind \in {"stale", "urlset", "sitemapindex"}

----------------------------------------------------------------------------
(* Claims about the documents written.                                     *)

\* the <loc> texts of the category and main sitemap documents written so far
EmittedLocs ==
  UNION {{writes[i].doc.entries[k].loc : k \in 1..Len(writes[i].doc.entries)} :
           i \in {j \in 1..Len(writes) : writes[j].role \in {"category", "main"}}}

\* loc is the base URL followed by a path that is '/' or does not end in '/'
NoTrailingSlash(loc) ==
  /\ startswith(loc, BaseUrl)
  /\ LET path == SubSeq(loc, Len(BaseUrl) + 1, Len(loc))
     IN  path = <<Slash>> \/ Len(path) = 0 \/ path[Len(path)] # Slash

\* C13: every <loc> emitted in a category or main sitemap document is the base
\* URL followed by a path that does not end in '/', unless the path is the root
\* '/', on the catalogue path and on the existing-sitemap path.
C13_LocsHaveNoTrailingSlash ==
  \A loc \in EmittedLocs : NoTrailingSlash(loc)

\* generate_sitemaps has completed over a catalogue that gave tools
GenerateCompleted == prog = "generate" /\ pc = "done" /\ Len(tools) > 0

\* the sitemap files on disk whose document lists the url
FilesListing(url) ==
  {n \in DOMAIN files :
     /\ files[n].kind = "urlset"
     /\ \E k \in 1..Len(files[n].entries) : files[n].entries[k].loc = url}

\* C14: after a completed generate_sitemaps run over a non-empty catalogue, with
\* any category labels, every parsed tool's URL is in exactly one sitemap file
\* on disk, every file written for a category still holds that category's
\* records, and no two entries of the index have the same <loc>.
C14_EveryToolInOneFileAndIndexDistinct ==
  GenerateCompleted =>
    /\ \A i \in 1..Len(tools) : Cardinality(FilesListing(tools[i].url)) = 1
    /\ \A w \in 1..Len(writes) :
         writes[w].role = "category" => files[writes[w].file] = writes[w].doc
    /\ \A i, j \in 1..Len(files[IndexFile].entries) :
         files[IndexFile].entries[i].loc = files[IndexFile].entries[j].loc => i = j

====
